---- MODULE Spec2Model ----
(***************************************************************************)
(* staticflow: the scope-aware symbol classifier (_CellVisitor, Cell) and  *)
(* the dependency index (Flow) of staticflow/__init__.py, Python 2.7.      *)
(*                                                                         *)
(* Python values are modelled as follows.                                  *)
(*   - an ast node is a record with a "kind" field (the node class) and    *)
(*     the fields of that class that the visitor reads; a Python list of   *)
(*     nodes is a sequence;                                                *)
(*   - a dict is a function whose DOMAIN is the set of keys present;       *)
(*   - a Cell object is its identity, an index into the sequence "heap"    *)
(*     of the Cell objects constructed so far (Cell defines no __eq__ or   *)
(*     __hash__, so sets and list.index compare Cells by identity);        *)
(*   - list positions are Python's: position i of a list is element i + 1  *)
(*     of the sequence.                                                    *)
(***************************************************************************)
EXTENDS Integers, Sequences, FiniteSets, TLC

VARIABLES
    \* ---- Flow (the dependency index) and the Cell objects of its caller
    heap,        \* the Cell objects constructed so far: [reads, writes] each
    cells,       \* Flow._cells: sequence of Cell identities
    read_by,     \* Flow.read_by: dict name -> set of Cell identities
    written_by,  \* Flow.written_by: dict name -> set of Cell identities
    last,        \* the last call on the Flow and how it ended
    \* ---- one run of Cell.__init__ (the classifier)
    source,      \* the tree handed to Cell.__init__
    agenda,      \* the calls of the visitor still to be made, next one first
    scopes,      \* _CellVisitor.scopes: sequence of [globals, locals]
    symbols,     \* _CellVisitor.symbols: dict name -> Symbol.state
    cell,        \* the finished Cell ([done, reads, writes])
    \* ---- one Symbol object driven by arbitrary events
    sym,         \* Symbol.state
    trace        \* the read()/write() calls made on it so far

flowVars == <<heap, cells, read_by, written_by, last>>
cellVars == <<source, agenda, scopes, symbols, cell>>
symVars == <<sym, trace>>
vars == <<heap, cells, read_by, written_by, last,
          source, agenda, scopes, symbols, cell, sym, trace>>

(***************************************************************************)
(* Symbol (lines 24-57)                                                    *)
(***************************************************************************)
DOESNT_EXIST == 0
READ == 1
CREATED == 2
READ_THEN_WRITTEN == 3

SymbolStates == {DOESNT_EXIST, READ, CREATED, READ_THEN_WRITTEN}

\* Symbol.read: the state after the call.
Symbol_read(state) ==
    IF state = DOESNT_EXIST THEN READ ELSE state

\* write() that forgets an earlier read.
Symbol_write_forgets_read(state) ==
    IF state = DOESNT_EXIST \/ state = READ THEN CREATED ELSE state

\* Symbol.write: the state after the call.
Symbol_write(state) ==
    IF state = DOESNT_EXIST THEN CREATED
    ELSE IF state = READ THEN READ_THEN_WRITTEN
    ELSE state

is_read(state) == state = READ \/ state = READ_THEN_WRITTEN

is_written(state) == state = CREATED \/ state = READ_THEN_WRITTEN

(***************************************************************************)
(* ast nodes (Python 2.7 grammar), with the fields the visitor reads.      *)
(***************************************************************************)
Name(id) == [kind |-> "Name", id |-> id]
Num == [kind |-> "Num"]
Str(s) == [kind |-> "str", s |-> s]
BinOp(left, right) == [kind |-> "BinOp", left |-> left, right |-> right]
Attribute(value, attr) == [kind |-> "Attribute", value |-> value, attr |-> attr]
Index(value) == [kind |-> "Index", value |-> value]
Subscript(value, slice) == [kind |-> "Subscript", value |-> value, slice |-> slice]
Tuple(elts) == [kind |-> "Tuple", elts |-> elts]
Call(func, args) == [kind |-> "Call", func |-> func, args |-> args]
Expr(value) == [kind |-> "Expr", value |-> value]
Pass == [kind |-> "Pass"]
PrintStmt(values) == [kind |-> "Print", values |-> values]
Assign(targets, value) == [kind |-> "Assign", targets |-> targets, value |-> value]
AugAssign(target, value) == [kind |-> "AugAssign", target |-> target, value |-> value]
Delete(targets) == [kind |-> "Delete", targets |-> targets]
Global(names) == [kind |-> "Global", names |-> names]
For(target, iter, body) == [kind |-> "For", target |-> target, iter |-> iter, body |-> body]
Import(name) == [kind |-> "Import", name |-> name]
FunctionDef(name, defaults, body) ==
    [kind |-> "FunctionDef", name |-> name, defaults |-> defaults,
     decorator_list |-> <<>>, body |-> body]
ClassDef(name, bases, body) ==
    [kind |-> "ClassDef", name |-> name, bases |-> bases,
     decorator_list |-> <<>>, body |-> body]
Module(body) == [kind |-> "Module", body |-> body]

\* The node classes _CellVisitor has no visit_ method for: ast.NodeVisitor
\* sends them to generic_visit, which visits the child nodes in field order.
GenericKinds ==
    {"Module", "Expr", "Print", "BinOp", "Attribute", "Subscript", "Index",
     "Tuple", "Num", "Pass"}

\* ast.iter_fields order of the child nodes of a generically visited node.
Children(node) ==
    CASE node.kind = "Module" -> node.body
      [] node.kind = "Expr" -> <<node.value>>
      [] node.kind = "Print" -> node.values
      [] node.kind = "BinOp" -> <<node.left, node.right>>
      [] node.kind = "Attribute" -> <<node.value>>
      [] node.kind = "Subscript" -> <<node.value, node.slice>>
      [] node.kind = "Index" -> <<node.value>>
      [] node.kind = "Tuple" -> node.elts
      [] OTHER -> <<>>

(***************************************************************************)
(* _CellVisitor (lines 60-288).  The visitor is a recursive descent; its   *)
(* call stack is the variable "agenda": the calls still to be made, in the *)
(* order the code makes them.  A handler removes its own call from the     *)
(* head of the agenda, updates scopes and symbols as its own statements    *)
(* do, and puts the calls it makes at the head, in order.                  *)
(***************************************************************************)
Scope == [globals |-> {}, locals |-> {}]

TVisit(node) == [op |-> "visit", node |-> node]
TAssign(symbol, update) == [op |-> "assign", symbol |-> symbol, update |-> update]
TDeleteTarget(target) == [op |-> "delete_target", target |-> target]
TLocalScopeVisit(body) == [op |-> "local_scope_visit", body |-> body]
TPop == [op |-> "pop"]

Cfg(a, sc, sy) == [agenda |-> a, scopes |-> sc, symbols |-> sy]

\* _CellVisitor.__init__
NewVisitor(tree) == Cfg(<<TVisit(tree)>>, <<>>, <<>>)

RECURSIVE VisitAll(_)
\* visit(node) for a list: "for n in node: self.visit(n)"
VisitAll(nodes) ==
    IF nodes = <<>> THEN <<>>
    ELSE <<TVisit(Head(nodes))>> \o VisitAll(Tail(nodes))

in_global_scope(sc) == sc = <<>>

\* self.symbols[name], created as Symbol() on KeyError (lines 98-101, 263-266)
SymbolOf(sy, name) == IF name \in DOMAIN sy THEN sy[name] ELSE DOESNT_EXIST

SetSymbol(sy, name, state) ==
    [n \in DOMAIN sy \cup {name} |-> IF n = name THEN state ELSE sy[n]]

SetTop(sc, scope) == [sc EXCEPT ![Len(sc)] = scope]

\* assign honouring the global declaration of any enclosing scope.
assign_name_any_scope(rest, sc, sy, name, update) ==
    IF in_global_scope(sc) \/ \E i \in 1..Len(sc) : name \in sc[i].globals
    THEN LET state == SymbolOf(sy, name)
             afterRead == IF update THEN Symbol_read(state) ELSE state
         IN  Cfg(rest, sc, SetSymbol(sy, name, Symbol_write(afterRead)))
    ELSE Cfg(rest,
             SetTop(sc, [sc[Len(sc)] EXCEPT !.locals = @ \cup {name}]),
             sy)

\* The isinstance(symbol, str) branch of assign, also taken by an ast.Name
\* after "symbol = symbol.id" (lines 95-107).
assign_name(rest, sc, sy, name, update) ==
    IF in_global_scope(sc) \/ name \in sc[Len(sc)].globals
    THEN LET state == SymbolOf(sy, name)
             afterRead == IF update THEN Symbol_read(state) ELSE state
         IN  Cfg(rest, sc, SetSymbol(sy, name, Symbol_write(afterRead)))
    ELSE Cfg(rest,
             SetTop(sc, [sc[Len(sc)] EXCEPT !.locals = @ \cup {name}]),
             sy)

\* _CellVisitor.assign
assign(rest, sc, sy, symbol, update) ==
    CASE symbol.kind = "Name" -> assign_name(rest, sc, sy, symbol.id, update)
      [] symbol.kind = "str" -> assign_name(rest, sc, sy, symbol.s, update)
      [] symbol.kind = "Subscript" ->
            Cfg(<<TVisit(symbol.slice), TAssign(symbol.value, TRUE)>> \o rest, sc, sy)
      [] symbol.kind = "Attribute" ->
            Cfg(<<TAssign(symbol.value, TRUE)>> \o rest, sc, sy)
      [] OTHER -> Cfg(rest, sc, sy)

\* local_scope_visit that visits the body in the scope of the caller.
local_scope_visit_flat(rest, sc, sy, body) ==
    Cfg(VisitAll(body) \o rest, sc, sy)

\* _CellVisitor.local_scope_visit: the push and the call; the pop of the
\* finally clause stays on the agenda behind the body.
local_scope_visit(rest, sc, sy, body) ==
    Cfg(VisitAll(body) \o <<TPop>> \o rest, Append(sc, Scope), sy)

\* A finally clause that leaves the scope on the stack.
scope_pop_keeps(rest, sc, sy) == Cfg(rest, sc, sy)

\* The finally clause of local_scope_visit.
scope_pop(rest, sc, sy) == Cfg(rest, SubSeq(sc, 1, Len(sc) - 1), sy)

visit_FunctionDef(rest, sc, sy, node) ==
    Cfg(<<TAssign(Str(node.name), FALSE)>> \o VisitAll(node.defaults)
          \o VisitAll(node.decorator_list)
          \o <<TLocalScopeVisit(node.body)>> \o rest, sc, sy)

visit_ClassDef(rest, sc, sy, node) ==
    Cfg(<<TAssign(Str(node.name), FALSE)>> \o VisitAll(node.bases)
          \o VisitAll(node.decorator_list)
          \o <<TLocalScopeVisit(node.body)>> \o rest, sc, sy)

\* visit_Delete: the loop over node.targets
visit_Delete(rest, sc, sy, node) ==
    Cfg([i \in 1..Len(node.targets) |-> TDeleteTarget(node.targets[i])] \o rest,
        sc, sy)

\* One iteration of the loop of visit_Delete (lines 146-156).
delete_target(rest, sc, sy, target) ==
    IF target.kind = "Name" /\ target.id \in DOMAIN sy
    THEN Cfg(rest, sc,
             SetSymbol(sy, target.id, Symbol_write(Symbol_read(sy[target.id]))))
    ELSE Cfg(<<TVisit(target), TAssign(target, FALSE)>> \o rest, sc, sy)

visit_Assign(rest, sc, sy, node) ==
    Cfg([i \in 1..Len(node.targets) |-> TAssign(node.targets[i], FALSE)]
          \o <<TVisit(node.value)>> \o rest, sc, sy)

\* visit_AugAssign assigning its target without update.
visit_AugAssign_no_update(rest, sc, sy, node) ==
    Cfg(<<TAssign(node.target, FALSE), TVisit(node.value)>> \o rest, sc, sy)

visit_AugAssign(rest, sc, sy, node) ==
    Cfg(<<TAssign(node.target, TRUE), TVisit(node.value)>> \o rest, sc, sy)

visit_For(rest, sc, sy, node) ==
    Cfg(<<TAssign(node.target, FALSE), TVisit(node.iter)>>
          \o VisitAll(node.body) \o rest, sc, sy)

\* visit_Import for "import <name>" with an undotted name and no "as".
visit_Import(rest, sc, sy, node) ==
    Cfg(<<TAssign(Str(node.name), FALSE)>> \o rest, sc, sy)

visit_Global(rest, sc, sy, node) ==
    IF sc # <<>>
    THEN Cfg(rest,
             SetTop(sc, [sc[Len(sc)] EXCEPT !.globals = @ \cup node.names]),
             sy)
    ELSE Cfg(rest, sc, sy)

visit_Name(rest, sc, sy, node) ==
    IF in_global_scope(sc) \/ node.id \notin sc[Len(sc)].locals
    THEN Cfg(rest, sc, SetSymbol(sy, node.id, Symbol_read(SymbolOf(sy, node.id))))
    ELSE Cfg(rest, sc, sy)

\* visit_Call; keywords, starargs and kwargs are empty in the calls modelled.
visit_Call(rest, sc, sy, node) ==
    Cfg((IF node.func.kind = "Attribute"
         THEN <<TAssign(node.func.value, TRUE)>>
         ELSE <<TVisit(node.func)>>)
          \o VisitAll(node.args) \o rest, sc, sy)

RECURSIVE Unwind(_)
\* An exception propagates out of the traversal: every pending call is
\* left, and the finally clause of each local_scope_visit on the way runs
\* (lines 85-89).
Unwind(c) ==
    IF c.agenda = <<>> THEN c
    ELSE IF Head(c.agenda).op = "pop"
    THEN Unwind(scope_pop(Tail(c.agenda), c.scopes, c.symbols))
    ELSE Unwind(Cfg(Tail(c.agenda), c.scopes, c.symbols))

\* ast.NodeVisitor.generic_visit, reached through the overridden visit.
generic_visit(rest, sc, sy, node) ==
    Cfg(VisitAll(Children(node)) \o rest, sc, sy)

\* ast.NodeVisitor.visit: the dispatch on the node class.
visit(rest, sc, sy, node) ==
    CASE node.kind = "FunctionDef" -> visit_FunctionDef(rest, sc, sy, node)
      [] node.kind = "ClassDef" -> visit_ClassDef(rest, sc, sy, node)
      [] node.kind = "Delete" -> visit_Delete(rest, sc, sy, node)
      [] node.kind = "Assign" -> visit_Assign(rest, sc, sy, node)
      [] node.kind = "AugAssign" -> visit_AugAssign(rest, sc, sy, node)
      [] node.kind = "For" -> visit_For(rest, sc, sy, node)
      [] node.kind = "Import" -> visit_Import(rest, sc, sy, node)
      [] node.kind = "Global" -> visit_Global(rest, sc, sy, node)
      [] node.kind = "Name" -> visit_Name(rest, sc, sy, node)
      [] node.kind = "Call" -> visit_Call(rest, sc, sy, node)
      [] OTHER -> generic_visit(rest, sc, sy, node)

\* The next call of the visitor: the head of the agenda is made.
Step(c) ==
    LET t == Head(c.agenda)
        rest == Tail(c.agenda)
    IN  CASE t.op = "visit" -> visit(rest, c.scopes, c.symbols, t.node)
          [] t.op = "assign" -> assign(rest, c.scopes, c.symbols, t.symbol, t.update)
          [] t.op = "delete_target" -> delete_target(rest, c.scopes, c.symbols, t.target)
          [] t.op = "local_scope_visit" ->
                local_scope_visit(rest, c.scopes, c.symbols, t.body)
          [] t.op = "pop" -> scope_pop(rest, c.scopes, c.symbols)

RECURSIVE Run(_)
\* visitor.visit(self.source), to its return.
Run(c) == IF c.agenda = <<>> THEN c ELSE Run(Step(c))

\* The projection at the end of Cell.__init__ (lines 308-317).
CellOfSymbols(sy) ==
    [reads |-> {n \in DOMAIN sy : is_read(sy[n])},
     writes |-> {n \in DOMAIN sy : is_written(sy[n])}]

\* Cell.__init__ on a tree.
Cell(tree) == CellOfSymbols(Run(NewVisitor(tree)).symbols)

\* The cell of the repository's test (tests/test_basic.py, lines 8-16).
TestCellSource ==
    Module(<<Assign(<<Name("a")>>, BinOp(Name("b"), Num)),
             Assign(<<Name("c")>>, Num),
             Delete(<<Name("d")>>),
             Assign(<<Name("e")>>, Num),
             FunctionDef("f", <<>>, <<Assign(<<Name("h")>>, BinOp(Name("i"), Num))>>),
             PrintStmt(<<Name("e")>>)>>)

(***************************************************************************)
(* Source texts.  A text is modelled by what ast.parse makes of it: the    *)
(* tree, or the SyntaxError it raises.                                     *)
(***************************************************************************)
\* "x = 1"
TextSet == Module(<<Assign(<<Name("x")>>, Num)>>)
\* "y = x"
TextCopy == Module(<<Assign(<<Name("y")>>, Name("x"))>>)
\* "y += x"
TextAug == Module(<<AugAssign(Name("y"), Name("x"))>>)
\* a text ast.parse rejects, such as "x = ("
TextBad == [kind |-> "SyntaxError"]

GoodTexts == {TextSet, TextCopy, TextAug}

\* ast.parse(source) (line 302): whether it raises.
ast_parse_raises(text) == text.kind = "SyntaxError"

\* Cell(text) for the texts above, computed once.
CellTable == [t \in GoodTexts |-> Cell(t)]

FlowNames == {"x", "y"}

(***************************************************************************)
(* Flow (lines 326-438).  "self" is the record of the Flow's attributes    *)
(* together with the heap of Cell objects; a method is an operator from    *)
(* self and the arguments to the outcome: the exception raised ("none"     *)
(* when the call returns) and self afterwards.                             *)
(***************************************************************************)
MaxCells == 3
MaxLen == 3
MaxInit == 2

Self(h, cs, rb, wb) == [heap |-> h, cells |-> cs, read_by |-> rb, written_by |-> wb]

\* The arguments a caller can pass as a cell.
CellValue(id) == [type |-> "Cell", id |-> id]
StrValue(text) == [type |-> "str", text |-> text]
OtherValue == [type |-> "other"]

\* default(dct, key, set).add(cell) (lines 9-15, 354, 358)
DictAdd(dct, key, c) ==
    [n \in DOMAIN dct \cup {key} |->
        IF n = key THEN (IF key \in DOMAIN dct THEN dct[key] ELSE {}) \cup {c}
        ELSE dct[n]]

RECURSIVE DictAddAll(_, _, _)
\* "for symbol in names: default(dct, symbol, set).add(cell)"
DictAddAll(dct, names, c) ==
    IF names = {} THEN dct
    ELSE LET n == CHOOSE n \in names : TRUE
         IN  DictAddAll(DictAdd(dct, n, c), names \ {n}, c)

\* dct[symbol].remove(cell) for every symbol of names
DictRemoveAll(dct, names, c) ==
    [n \in DOMAIN dct |-> IF n \in names THEN dct[n] \ {c} ELSE dct[n]]

\* The symbols of names for which dct[symbol].remove(cell) does not raise.
Removable(dct, names, c) == {n \in names : n \in DOMAIN dct /\ c \in dct[n]}

\* Flow._add: [exc, cell, self]
_add(self, value) ==
    CASE value.type = "Cell" ->
            LET c == value.id
            IN  [exc |-> "none", cell |-> c,
                 self |-> [self EXCEPT
                    !.read_by = DictAddAll(@, self.heap[c].reads, c),
                    !.written_by = DictAddAll(@, self.heap[c].writes, c)]]
      [] value.type = "str" ->
            IF ast_parse_raises(value.text)
            THEN [exc |-> "SyntaxError", cell |-> 0, self |-> self]
            ELSE LET c == Len(self.heap) + 1
                     new == CellTable[value.text]
                 IN  [exc |-> "none", cell |-> c,
                      self |-> [self EXCEPT
                         !.heap = Append(@, new),
                         !.read_by = DictAddAll(@, new.reads, c),
                         !.written_by = DictAddAll(@, new.writes, c)]]
      [] OTHER -> [exc |-> "TypeError", cell |-> 0, self |-> self]

\* _rm emptying the set of each symbol of the cell.
_rm_clears_sets(self, c) ==
    {[exc |-> "none",
      self |-> [self EXCEPT
         !.read_by = [n \in DOMAIN @ |-> IF n \in self.heap[c].reads THEN {} ELSE @[n]],
         !.written_by = [n \in DOMAIN @ |-> IF n \in self.heap[c].writes THEN {} ELSE @[n]]]]}

\* _rm without its second loop: the cell stays in written_by.
_rm_reads_only(self, c) ==
    LET R == self.heap[c].reads
        okR == Removable(self.read_by, R, c)
    IN  IF okR # R
        THEN {[exc |-> "KeyError",
               self |-> [self EXCEPT !.read_by = DictRemoveAll(@, S, c)]] :
              S \in SUBSET okR}
        ELSE {[exc |-> "none",
               self |-> [self EXCEPT !.read_by = DictRemoveAll(@, R, c)]]}

\* Flow._rm: the set of possible outcomes [exc, self].  The loops run over
\* Python sets, whose order is not specified: when a remove raises KeyError,
\* any subset of the symbols that could be removed has been removed before.
_rm(self, c) ==
    LET R == self.heap[c].reads
        W == self.heap[c].writes
        okR == Removable(self.read_by, R, c)
        okW == Removable(self.written_by, W, c)
    IN  IF okR # R
        THEN {[exc |-> "KeyError",
               self |-> [self EXCEPT !.read_by = DictRemoveAll(@, S, c)]] :
              S \in SUBSET okR}
        ELSE IF okW # W
        THEN {[exc |-> "KeyError",
               self |-> [self EXCEPT !.read_by = DictRemoveAll(@, R, c),
                                     !.written_by = DictRemoveAll(@, S, c)]] :
              S \in SUBSET okW}
        ELSE {[exc |-> "none",
               self |-> [self EXCEPT !.read_by = DictRemoveAll(@, R, c),
                                     !.written_by = DictRemoveAll(@, W, c)]]}

RECURSIVE Flow__init__loop(_, _)
\* "[self._add(cell) for cell in cells]" on values that do not raise
Flow__init__loop(self, values) ==
    IF values = <<>> THEN self
    ELSE LET r == _add(self, Head(values))
         IN  Flow__init__loop([r.self EXCEPT !.cells = Append(@, r.cell)],
                              Tail(values))

\* Flow.__init__, given the Cell objects that exist
Flow__init__(h, values) == Flow__init__loop(Self(h, <<>>, <<>>, <<>>), values)

\* Flow.append: the set of outcomes
append(self, value) ==
    LET r == _add(self, value)
    IN  IF r.exc # "none" THEN {[exc |-> r.exc, self |-> r.self]}
        ELSE {[exc |-> "none", self |-> [r.self EXCEPT !.cells = Append(@, r.cell)]]}

\* Flow.__setitem__ with an integer key >= 0: the set of outcomes
__setitem__(self, key, value) ==
    IF key >= Len(self.cells) THEN {[exc |-> "IndexError", self |-> self]}
    ELSE UNION {
        IF rm.exc # "none" THEN {rm}
        ELSE LET r == _add(rm.self, value)
             IN  IF r.exc # "none" THEN {[exc |-> r.exc, self |-> r.self]}
                 ELSE {[exc |-> "none",
                        self |-> [r.self EXCEPT !.cells[key + 1] = r.cell]]} :
        rm \in _rm(self, self.cells[key + 1])}

\* list.pop(key) on a sequence, key >= 0 in range: the list afterwards
ListWithout(s, key) == SubSeq(s, 1, key) \o SubSeq(s, key + 2, Len(s))

\* __delitem__ popping the last element whatever the key.
delitem_pops_last(self, key) ==
    IF key >= Len(self.cells) THEN {[exc |-> "IndexError", self |-> self]}
    ELSE _rm([self EXCEPT !.cells = ListWithout(@, Len(@) - 1)], self.cells[key + 1])

\* Flow.__delitem__ with an integer key >= 0: the set of outcomes
__delitem__(self, key) ==
    IF key >= Len(self.cells) THEN {[exc |-> "IndexError", self |-> self]}
    ELSE _rm([self EXCEPT !.cells = ListWithout(@, key)], self.cells[key + 1])

\* list.index(cell): the first position holding the object (-1: ValueError)
list_index(s, c) ==
    IF \E p \in 1..Len(s) : s[p] = c
    THEN (CHOOSE p \in 1..Len(s) : s[p] = c /\ \A q \in 1..(p - 1) : s[q] # c) - 1
    ELSE -1

\* set(d.values()) of a dict
DictValues(d) == {d[n] : n \in DOMAIN d}

\* "for symbol in names: d[symbol] = v"
DictSetAll(d, names, v) ==
    [n \in DOMAIN d \cup names |-> IF n \in names THEN v ELSE d[n]]

\* dependencies' loop body without "symbols.difference_update(other.writes)".
dependencies_body_keeps_symbols(self, pos, last_assign, syms) ==
    LET other == self.cells[pos + 1]
        w == self.heap[other].writes
    IN  [last_assign |-> DictSetAll(last_assign, w \cap syms, other),
         symbols |-> syms]

\* The body of the loop of Flow.dependencies (lines 404-406) for "other" at
\* position pos: last_assign and symbols afterwards.
dependencies_body(self, pos, last_assign, syms) ==
    LET other == self.cells[pos + 1]
        w == self.heap[other].writes
    IN  [last_assign |-> DictSetAll(last_assign, w \cap syms, other),
         symbols |-> syms \ w]

RECURSIVE dependencies_loop(_, _, _, _)
\* The loop of Flow.dependencies over self._cells[index::-1], from position
\* pos on, and the return.
dependencies_loop(self, pos, last_assign, syms) ==
    IF pos < 0 \/ syms = {} THEN DictValues(last_assign)
    ELSE LET b == dependencies_body(self, pos, last_assign, syms)
         IN  dependencies_loop(self, pos - 1, b.last_assign, b.symbols)

\* dependencies scanning from the cell before the given one.
dependencies_skips_self(self, c) ==
    LET index == list_index(self.cells, c)
    IN  IF index < 0 THEN [exc |-> "ValueError", value |-> {}]
        ELSE [exc |-> "none",
              value |-> dependencies_loop(self, index - 1, <<>>, self.heap[c].reads)]

\* Flow.dependencies: [exc, value]
dependencies(self, c) ==
    LET index == list_index(self.cells, c)
    IN  IF index < 0 THEN [exc |-> "ValueError", value |-> {}]
        ELSE [exc |-> "none",
              value |-> dependencies_loop(self, index, <<>>, self.heap[c].reads)]

\* The body of the loop of Flow.dependents (lines 417-419)
dependents_body(self, pos, last_read, syms) ==
    LET other == self.cells[pos + 1]
        r == self.heap[other].reads
    IN  [last_read |-> DictSetAll(last_read, r \cap syms, other),
         symbols |-> syms \ r]

RECURSIVE dependents_loop(_, _, _, _)
\* The loop of Flow.dependents over self._cells[index:], from position pos
\* on, and the return.
dependents_loop(self, pos, last_read, syms) ==
    IF pos >= Len(self.cells) \/ syms = {} THEN DictValues(last_read)
    ELSE LET b == dependents_body(self, pos, last_read, syms)
         IN  dependents_loop(self, pos + 1, b.last_read, b.symbols)

\* dependents returning the empty set for a cell that is not in the list.
dependents_unknown_is_empty(self, c) ==
    LET index == list_index(self.cells, c)
    IN  IF index < 0 THEN [exc |-> "none", value |-> {}]
        ELSE [exc |-> "none",
              value |-> dependents_loop(self, index, <<>>, self.heap[c].writes)]

\* Flow.dependents: [exc, value]
dependents(self, c) ==
    LET index == list_index(self.cells, c)
    IN  IF index < 0 THEN [exc |-> "ValueError", value |-> {}]
        ELSE [exc |-> "none",
              value |-> dependents_loop(self, index, <<>>, self.heap[c].writes)]

\* graph's loop body recording the cell's writes before resolving its reads.
graph_body_writes_first(self, i, last_assign) ==
    LET c == self.heap[self.cells[i + 1]]
        updated == DictSetAll(last_assign, c.writes, i)
    IN  [deps |-> {updated[n] : n \in c.reads \cap DOMAIN updated},
         last_assign |-> updated]

\* graph's loop body keeping the first writer of a name instead of the last.
graph_body_keeps_first(self, i, last_assign) ==
    LET c == self.heap[self.cells[i + 1]]
    IN  [deps |-> {last_assign[n] : n \in c.reads \cap DOMAIN last_assign},
         last_assign |-> DictSetAll(last_assign, c.writes \ DOMAIN last_assign, i)]

\* The body of the loop of Flow.graph (lines 428-436) for the cell at
\* position i: its deps and last_assign afterwards.
graph_body(self, i, last_assign) ==
    LET c == self.heap[self.cells[i + 1]]
    IN  [deps |-> {last_assign[n] : n \in c.reads \cap DOMAIN last_assign},
         last_assign |-> DictSetAll(last_assign, c.writes, i)]

RECURSIVE graph_loop(_, _, _, _)
\* The loop of Flow.graph from position i on, and the return.
graph_loop(self, i, last_assign, result) ==
    IF i >= Len(self.cells) THEN result
    ELSE LET b == graph_body(self, i, last_assign)
         IN  graph_loop(self, i + 1, b.last_assign, Append(result, b.deps))

\* Flow.graph: the list of sets of positions
graph(self) == graph_loop(self, 0, <<>>, <<>>)

(***************************************************************************)
(* The calls on a Flow and on Cell, as actions.                            *)
(***************************************************************************)
\* The Flow and the Cell objects in the current state
This == Self(heap, cells, read_by, written_by)

\* The arguments passed for a cell: a Cell object the caller holds (every
\* Cell constructed so far) or a text.
Values ==
    {CellValue(id) : id \in 1..Len(heap)}
      \cup {StrValue(t) : t \in GoodTexts \cup {TextBad}}

\* A value whose Cell, if one is constructed, still fits the bound on heap.
Fits(value) ==
    (value.type = "str" /\ ~ast_parse_raises(value.text)) => Len(heap) < MaxCells

Becomes(out, op) ==
    /\ heap' = out.self.heap
    /\ cells' = out.self.cells
    /\ read_by' = out.self.read_by
    /\ written_by' = out.self.written_by
    /\ last' = [op |-> op, exc |-> out.exc]

RECURSIVE SeqsUpTo(_, _)
\* The sequences over S of length at most n
SeqsUpTo(S, n) ==
    IF n = 0 THEN {<<>>}
    ELSE LET shorter == SeqsUpTo(S, n - 1)
         IN  shorter \cup {Append(s, x) : s \in shorter, x \in S}

\* Flow() or Flow(list of texts)
InitFlow ==
    /\ \E texts \in SeqsUpTo(GoodTexts, MaxInit) :
         LET self == Flow__init__(<<>>, [i \in 1..Len(texts) |-> StrValue(texts[i])])
         IN  /\ heap = self.heap
             /\ cells = self.cells
             /\ read_by = self.read_by
             /\ written_by = self.written_by
    /\ last = [op |-> "__init__", exc |-> "none"]

\* flow.append(value)
Append_ ==
    \E value \in Values :
        /\ Fits(value)
        /\ Len(cells) < MaxLen
        /\ \E out \in append(This, value) : Becomes(out, "append")
        /\ UNCHANGED <<cellVars, symVars>>

\* flow[key] = value, key a position of the list
SetItem ==
    \E key \in 0..(Len(cells) - 1), value \in Values :
        /\ Fits(value)
        /\ \E out \in __setitem__(This, key, value) : Becomes(out, "__setitem__")
        /\ UNCHANGED <<cellVars, symVars>>

\* del flow[key], key a position of the list
DelItem ==
    \E key \in 0..(Len(cells) - 1) :
        /\ \E out \in __delitem__(This, key) : Becomes(out, "__delitem__")
        /\ UNCHANGED <<cellVars, symVars>>

\* No Flow in use
IdleFlow ==
    /\ heap = <<>>
    /\ cells = <<>>
    /\ read_by = <<>>
    /\ written_by = <<>>
    /\ last = [op |-> "none", exc |-> "none"]

\* No Cell under construction
IdleCell ==
    /\ source = Module(<<>>)
    /\ agenda = <<>>
    /\ scopes = <<>>
    /\ symbols = <<>>
    /\ cell = [done |-> FALSE, reads |-> {}, writes |-> {}]

\* No Symbol under test
IdleSymbol == sym = DOESNT_EXIST /\ trace = <<>>

Init == InitFlow /\ IdleCell /\ IdleSymbol

Next ==
    \/ Append_
    \/ SetItem
    \/ DelItem

Spec == Init /\ [][Next]_vars

(***************************************************************************)
(* Cell.__init__ on a tree, call by call (lines 297-317).                  *)
(***************************************************************************)
MaxBody == 2

\* The statements of the trees, over the name x (y where a second name is
\* needed), in Python 2:
\*   x            x = 1        x += 1       del x        global x
\*   x.m()        x[0] = 1     x, y = 1     for x in 1: pass
\*   import x     y = x
StmtRead == Expr(Name("x"))
StmtAssign == Assign(<<Name("x")>>, Num)
StmtAugAssign == AugAssign(Name("x"), Num)
StmtDelete == Delete(<<Name("x")>>)
StmtGlobal == Global({"x"})
StmtMethodCall == Expr(Call(Attribute(Name("x"), "m"), <<>>))
StmtSubscriptAssign == Assign(<<Subscript(Name("x"), Index(Num))>>, Num)
StmtTupleAssign == Assign(<<Tuple(<<Name("x"), Name("y")>>)>>, Num)
StmtFor == For(Name("x"), Num, <<Pass>>)
StmtImport == Import("x")
StmtCopy == Assign(<<Name("y")>>, Name("x"))

SimpleStmts ==
    {StmtRead, StmtAssign, StmtAugAssign, StmtDelete, StmtGlobal, StmtMethodCall,
     StmtSubscriptAssign, StmtTupleAssign, StmtFor, StmtImport, StmtCopy}

\* "def g(): <statement>", a function nested in a body
NestedDefs == {FunctionDef("g", <<>>, <<st>>) : st \in {StmtRead, StmtAssign, StmtDelete}}

\* The bodies of "def f" and "class K"
Bodies == SeqsUpTo(SimpleStmts \cup NestedDefs, MaxBody) \ {<<>>}

Defs ==
    {FunctionDef("f", <<>>, body) : body \in Bodies}
      \cup {ClassDef("K", <<>>, <<st>>) : st \in SimpleStmts \cup NestedDefs}

\* The statements that follow the def or class
AfterStmts == {StmtRead, StmtAssign, StmtAugAssign, StmtDelete}

\* A tree: at most one statement, then at most one def or class, then at
\* most one of the statements of AfterStmts; and the tree of the
\* repository's test.
Programs ==
    {Module(before \o middle \o after) :
        before \in {<<>>} \cup {<<st>> : st \in SimpleStmts},
        middle \in {<<>>} \cup {<<d>> : d \in Defs},
        after \in {<<>>} \cup {<<st>> : st \in AfterStmts}}
      \cup {TestCellSource}

InitCell ==
    /\ source \in Programs
    /\ agenda = NewVisitor(source).agenda
    /\ scopes = NewVisitor(source).scopes
    /\ symbols = NewVisitor(source).symbols
    /\ cell = [done |-> FALSE, reads |-> {}, writes |-> {}]
    /\ IdleFlow
    /\ IdleSymbol

\* The visitor's state
Current == Cfg(agenda, scopes, symbols)

HeadIs(op) == agenda # <<>> /\ Head(agenda).op = op

VisitIs(kind) == HeadIs("visit") /\ Head(agenda).node.kind = kind

\* The call at the head of the agenda is made.
Call_ ==
    /\ agenda' = Step(Current).agenda
    /\ scopes' = Step(Current).scopes
    /\ symbols' = Step(Current).symbols
    /\ UNCHANGED <<source, cell, flowVars, symVars>>

DoGenericVisit == HeadIs("visit") /\ Head(agenda).node.kind \in GenericKinds /\ Call_

DoVisitFunctionDef == VisitIs("FunctionDef") /\ Call_

DoVisitClassDef == VisitIs("ClassDef") /\ Call_

DoVisitDelete == VisitIs("Delete") /\ Call_

DoDeleteTarget == HeadIs("delete_target") /\ Call_

DoVisitAssign == VisitIs("Assign") /\ Call_

DoVisitAugAssign == VisitIs("AugAssign") /\ Call_

DoVisitFor == VisitIs("For") /\ Call_

DoVisitImport == VisitIs("Import") /\ Call_

DoVisitGlobal == VisitIs("Global") /\ Call_

DoVisitName == VisitIs("Name") /\ Call_

DoVisitCall == VisitIs("Call") /\ Call_

DoAssign == HeadIs("assign") /\ Call_

DoLocalScopeVisit == HeadIs("local_scope_visit") /\ Call_

DoScopePop == HeadIs("pop") /\ Call_

\* The call at the head of the agenda raises (such as RuntimeError, maximum
\* recursion depth exceeded); the exception leaves the traversal and
\* Cell.__init__.
CallRaises ==
    /\ agenda # <<>>
    /\ Head(agenda).op # "pop"
    /\ agenda' = Unwind(Current).agenda
    /\ scopes' = Unwind(Current).scopes
    /\ symbols' = Unwind(Current).symbols
    /\ last' = [op |-> "Cell", exc |-> "RuntimeError"]
    /\ UNCHANGED <<heap, cells, read_by, written_by, source, cell, symVars>>

\* visitor.visit has returned: reads and writes are filled (lines 313-317).
CellDone ==
    /\ agenda = <<>>
    /\ last.exc = "none"
    /\ ~cell.done
    /\ cell' = [done |-> TRUE, reads |-> CellOfSymbols(symbols).reads,
                writes |-> CellOfSymbols(symbols).writes]
    /\ UNCHANGED <<source, agenda, scopes, symbols, flowVars, symVars>>

NextCell ==
    \/ DoGenericVisit
    \/ DoVisitFunctionDef
    \/ DoVisitClassDef
    \/ DoVisitDelete
    \/ DoDeleteTarget
    \/ DoVisitAssign
    \/ DoVisitAugAssign
    \/ DoVisitFor
    \/ DoVisitImport
    \/ DoVisitGlobal
    \/ DoVisitName
    \/ DoVisitCall
    \/ DoAssign
    \/ DoLocalScopeVisit
    \/ DoScopePop
    \/ CallRaises
    \/ CellDone

SpecCell == InitCell /\ [][NextCell]_vars

(***************************************************************************)
(* One Symbol under arbitrary read() and write() calls.                    *)
(***************************************************************************)
MaxEvents == 6

InitSymbol == IdleSymbol /\ IdleFlow /\ IdleCell

SymbolRead ==
    /\ Len(trace) < MaxEvents
    /\ sym' = Symbol_read(sym)
    /\ trace' = Append(trace, "read")
    /\ UNCHANGED <<flowVars, cellVars>>

SymbolWrite ==
    /\ Len(trace) < MaxEvents
    /\ sym' = Symbol_write(sym)
    /\ trace' = Append(trace, "write")
    /\ UNCHANGED <<flowVars, cellVars>>

NextSymbol ==
    \/ SymbolRead
    \/ SymbolWrite

SpecSymbol == InitSymbol /\ [][NextSymbol]_vars


(***************************************************************************)
(* The Flow with its calls restricted to those that return and leave every *)
(* Cell object at one position at most.                                    *)
(***************************************************************************)
\* Each Cell object of the list is at one position.
NoDup(s) == \A p, q \in 1..Len(s) : p # q => s[p] # s[q]

Returned == last'.exc = "none" /\ NoDup(cells')

AppendDistinct == Append_ /\ Returned

SetItemDistinct == SetItem /\ Returned

DelItemDistinct == DelItem /\ Returned

NextDistinct ==
    \/ AppendDistinct
    \/ SetItemDistinct
    \/ DelItemDistinct

SpecDistinct == Init /\ [][NextDistinct]_vars

(***************************************************************************)
(* Properties of the Flow                                                  *)
(***************************************************************************)
\* dct[name] as a set, empty when the key is absent
Members(dct, name) == IF name \in DOMAIN dct THEN dct[name] ELSE {}

Positions(self) == 0..(Len(self.cells) - 1)

\* The Cell at a position of the list
At(self, i) == self.heap[self.cells[i + 1]]

InList(self, c) == \E p \in 1..Len(self.cells) : self.cells[p] = c

\* C1: after calls that all returned and left each Cell at one position at
\* most, every cell of the list is in read_by[name] for each name it reads
\* and in written_by[name] for each name it writes, and no cell outside the
\* list is in any set of read_by or written_by.
ReverseMapsConsistent ==
    /\ \A i \in Positions(This) :
         /\ \A n \in At(This, i).reads : cells[i + 1] \in Members(read_by, n)
         /\ \A n \in At(This, i).writes : cells[i + 1] \in Members(written_by, n)
    /\ \A n \in DOMAIN read_by : \A c \in read_by[n] : InList(This, c)
    /\ \A n \in DOMAIN written_by : \A c \in written_by[n] : InList(This, c)

\* A replace has returned, leaving two cells in the list, one Cell that is
\* no longer in it, and a read registered.
ReverseMapsConsistentWitness ==
    /\ last = [op |-> "__setitem__", exc |-> "none"]
    /\ Len(cells) = 2
    /\ \E c \in 1..Len(heap) : ~InList(This, c) /\ heap[c].writes # {}
    /\ \E n \in DOMAIN read_by : read_by[n] # {}

\* The positions graph() is to give for position i: the nearest writer
\* before i of each name i reads.
NearestWriters(self, i) ==
    {j \in 0..(i - 1) :
        \E n \in At(self, i).reads \cap At(self, j).writes :
            \A k \in (j + 1)..(i - 1) : n \notin At(self, k).writes}

\* C2: graph() returns one set per cell, and the set at position i is the
\* set of the nearest preceding writers of the names the cell at i reads.
GraphIsNearestWriters ==
    /\ Len(graph(This)) = Len(cells)
    /\ \A i \in Positions(This) : graph(This)[i + 1] = NearestWriters(This, i)

\* Two writers of a name precede a reader of it, the nearer one having read
\* the name before writing it, and graph() gives the nearer one alone.
GraphIsNearestWritersWitness ==
    \E i, j, k \in Positions(This) :
        /\ j < k /\ k < i
        /\ \E n \in At(This, i).reads :
             n \in At(This, j).writes /\ n \in At(This, k).writes
               /\ n \in At(This, k).reads
        /\ graph(This)[i + 1] = {k}

DisjointReadsWrites(c) == c.reads \cap c.writes = {}

\* C3: with each Cell at one position, dependencies(f) of a cell f whose
\* reads and writes are disjoint is the set of cells at the positions of
\* graph()[i], i the position of f.
DependenciesAgreeWithGraph ==
    NoDup(cells) =>
        \A i \in Positions(This) :
            DisjointReadsWrites(At(This, i)) =>
                dependencies(This, cells[i + 1]) =
                    [exc |-> "none",
                     value |-> {cells[j + 1] : j \in graph(This)[i + 1]}]

\* Three distinct cells: two writers of a name and then a reader of it,
\* whose dependencies are the nearer writer alone.
DependenciesAgreeWithGraphWitness ==
    /\ NoDup(cells)
    /\ \E i, j, k \in Positions(This) :
        /\ j < k /\ k < i
        /\ DisjointReadsWrites(At(This, i))
        /\ \E n \in At(This, i).reads :
             n \in At(This, j).writes /\ n \in At(This, k).writes
        /\ dependencies(This, cells[i + 1]).value = {cells[k + 1]}

\* C4: with each Cell at one position, dependents(f) of a cell f whose reads
\* and writes are disjoint is the set of cells at the positions k with the
\* position of f in graph()[k].
DependentsAgreeWithGraph ==
    NoDup(cells) =>
        \A i \in Positions(This) :
            DisjointReadsWrites(At(This, i)) =>
                dependents(This, cells[i + 1]) =
                    [exc |-> "none",
                     value |-> {cells[k + 1] :
                                  k \in {k \in Positions(This) : i \in graph(This)[k + 1]}}]

\* The Flow built from a list of Cell objects
Built(h, cs) == Flow__init__(h, [p \in 1..Len(cs) |-> CellValue(cs[p])])

\* The results of the three queries on a Flow, for every cell of its list
Queries(self) ==
    [graph |-> graph(self),
     dependencies |-> [p \in 1..Len(self.cells) |-> dependencies(self, self.cells[p])],
     dependents |-> [p \in 1..Len(self.cells) |-> dependents(self, self.cells[p])]]

SameMembers(self, other) ==
    \A n \in FlowNames :
        /\ Members(self.read_by, n) = Members(other.read_by, n)
        /\ Members(self.written_by, n) = Members(other.written_by, n)

\* C5: with each Cell at one position, del flow[key] leaves the cell in no
\* set of read_by or written_by, and the queries then give what they give on
\* a Flow built from the list without that cell; appending a cell that is
\* not in the list and deleting it again restores the list, the query
\* results and the members of every read_by and written_by set.
DeleteAsIfNeverInserted ==
    NoDup(cells) =>
        /\ \A key \in Positions(This) : \A out \in __delitem__(This, key) :
             /\ \A n \in FlowNames :
                  /\ cells[key + 1] \notin Members(out.self.read_by, n)
                  /\ cells[key + 1] \notin Members(out.self.written_by, n)
             /\ Queries(out.self) = Queries(Built(heap, ListWithout(cells, key)))
        /\ \A value \in Values :
             (value.type = "Cell" => ~InList(This, value.id)) =>
                \A added \in append(This, value) :
                    added.exc = "none" =>
                        \A out \in __delitem__(added.self, Len(cells)) :
                            /\ out.exc = "none"
                            /\ out.self.cells = cells
                            /\ Queries(out.self) = Queries(This)
                            /\ SameMembers(out.self, This)

\* A delete has returned its cell, out of a list of three distinct cells
\* whose first cell had a dependent, leaving two.
DeleteAsIfNeverInsertedWitness ==
    /\ last = [op |-> "__delitem__", exc |-> "none"]
    /\ NoDup(cells)
    /\ Len(cells) = 2
    /\ \E c \in 1..Len(heap) :
         /\ ~InList(This, c)
         /\ heap[c].writes # {}
         /\ \A n \in FlowNames : c \notin Members(written_by, n)
    /\ \E i \in Positions(This) : graph(This)[i + 1] # {}

\* C6: a call of append or __setitem__ that ends in the parser's error
\* leaves the list, read_by and written_by as they were.
RejectedTextLeavesIndex ==
    [][(last'.exc = "SyntaxError" /\ last'.op \in {"append", "__setitem__"})
         => UNCHANGED <<cells, read_by, written_by>>]_vars

(***************************************************************************)
(* The syntax of a tree, for the statements about the classifier.          *)
(***************************************************************************)
\* The child nodes of a node of any class.
SubNodes(node) ==
    CASE node.kind \in {"FunctionDef", "ClassDef"} -> node.body
      [] node.kind = "Assign" -> node.targets \o <<node.value>>
      [] node.kind = "AugAssign" -> <<node.target, node.value>>
      [] node.kind = "Delete" -> node.targets
      [] node.kind = "For" -> <<node.target, node.iter>> \o node.body
      [] node.kind = "Call" -> <<node.func>> \o node.args
      [] OTHER -> Children(node)

RECURSIVE NamesIn(_)
\* Every name that occurs in a node.
NamesIn(node) ==
    (CASE node.kind = "Name" -> {node.id}
       [] node.kind = "Global" -> node.names
       [] node.kind \in {"Import", "FunctionDef", "ClassDef"} -> {node.name}
       [] OTHER -> {})
      \cup UNION {NamesIn(SubNodes(node)[i]) : i \in 1..Len(SubNodes(node))}

RECURSIVE TargetNames(_)
\* The names a target binds, or whose object it assigns into.
TargetNames(target) ==
    CASE target.kind = "Name" -> {target.id}
      [] target.kind = "Tuple" ->
            UNION {TargetNames(target.elts[i]) : i \in 1..Len(target.elts)}
      [] target.kind \in {"Subscript", "Attribute"} -> TargetNames(target.value)
      [] OTHER -> {}

IsDef(stmt) == stmt.kind \in {"FunctionDef", "ClassDef"}

RECURSIVE BoundBy(_)
\* The names a statement binds in the scope it stands in: targets of an
\* assignment, augmented assignment, deletion or loop, an imported name, the
\* name of a def or class.  The object of a method call statement, which
\* the classifier's rules treat as assigned, is counted with them.
BoundBy(stmt) ==
    CASE stmt.kind = "Assign" ->
            UNION {TargetNames(stmt.targets[i]) : i \in 1..Len(stmt.targets)}
      [] stmt.kind = "AugAssign" -> TargetNames(stmt.target)
      [] stmt.kind = "Delete" ->
            UNION {TargetNames(stmt.targets[i]) : i \in 1..Len(stmt.targets)}
      [] stmt.kind = "For" ->
            TargetNames(stmt.target)
              \cup UNION {BoundBy(stmt.body[i]) : i \in 1..Len(stmt.body)}
      [] stmt.kind \in {"Import", "FunctionDef", "ClassDef"} -> {stmt.name}
      [] stmt.kind = "Expr" /\ stmt.value.kind = "Call"
           /\ stmt.value.func.kind = "Attribute" -> TargetNames(stmt.value.func.value)
      [] OTHER -> {}

\* The names bound at the outermost level of a tree
BoundOutermost(tree) == UNION {BoundBy(tree.body[i]) : i \in 1..Len(tree.body)}

RECURSIVE GlobalsIn(_)
\* The names of the global statements of a node, at any depth.
GlobalsIn(node) ==
    (IF node.kind = "Global" THEN node.names ELSE {})
      \cup UNION {GlobalsIn(SubNodes(node)[i]) : i \in 1..Len(SubNodes(node))}

\* The names declared global inside some function or class body of a tree
DeclaredGlobalInside(tree) ==
    UNION {GlobalsIn(tree.body[i]) : i \in {i \in 1..Len(tree.body) : IsDef(tree.body[i])}}

RECURSIVE BodiesOf(_)
\* The function and class bodies of a node, at any depth.
BodiesOf(node) ==
    (IF IsDef(node) THEN {node.body} ELSE {})
      \cup UNION {BodiesOf(SubNodes(node)[i]) : i \in 1..Len(SubNodes(node))}

\* "n = ..." or "n op= ..."
AssignsName(stmt, n) ==
    \/ stmt.kind = "Assign" /\ \E i \in 1..Len(stmt.targets) : stmt.targets[i] = Name(n)
    \/ stmt.kind = "AugAssign" /\ stmt.target = Name(n)

\* Some function or class body of the tree declares n global and assigns it
\* in a later statement of that body.
AssignedAfterGlobal(tree, n) ==
    \E body \in BodiesOf(tree) : \E p, q \in 1..Len(body) :
        /\ p < q
        /\ body[p].kind = "Global" /\ n \in body[p].names
        /\ AssignsName(body[q], n)

RECURSIVE OnlyLocalAssignments(_, _, _, _)
\* Every occurrence of n in the statements is a global declaration in a
\* function or class body or a plain assignment "n = <expression without n>"
\* in a function or class body that no global declaration of n precedes in
\* that same body.  inner: the statements are such a body; declared: a
\* global declaration of n precedes them in it.
OnlyLocalAssignments(stmts, n, inner, declared) ==
    IF stmts = <<>> THEN TRUE
    ELSE LET stmt == Head(stmts)
             rest == Tail(stmts)
         IN  CASE stmt.kind = "Global" /\ inner ->
                    OnlyLocalAssignments(rest, n, inner, declared \/ n \in stmt.names)
               [] IsDef(stmt) ->
                    /\ stmt.name # n
                    /\ OnlyLocalAssignments(stmt.body, n, TRUE, FALSE)
                    /\ OnlyLocalAssignments(rest, n, inner, declared)
               [] stmt.kind = "Assign" /\ stmt.targets = <<Name(n)>> ->
                    /\ inner
                    /\ ~declared
                    /\ n \notin NamesIn(stmt.value)
                    /\ OnlyLocalAssignments(rest, n, inner, declared)
               [] OTHER ->
                    /\ n \notin NamesIn(stmt)
                    /\ OnlyLocalAssignments(rest, n, inner, declared)

\* C7: when the classification of a tree is done, a name that is bound
\* nowhere at the outermost level and declared global in no function or class
\* body is not in writes, whatever its other occurrences.
InnerBindingsNotInWrites ==
    cell.done =>
        \A n \in NamesIn(source) :
            (n \notin BoundOutermost(source) /\ n \notin DeclaredGlobalInside(source))
                => n \notin cell.writes

\* C8: when the classification of a tree is done, a name that some function
\* or class body declares global and assigns in a later statement is in
\* writes; and a name whose only occurrences are assignments in function or
\* class bodies, each before any global declaration of the name in its own
\* body (the declarations of other bodies do not count), has no entry in the
\* fragment-level symbol table and so is in neither reads nor writes.
GlobalThenAssignedIsWritten ==
    cell.done =>
        \A n \in NamesIn(source) :
            /\ AssignedAfterGlobal(source, n) => n \in cell.writes
            /\ OnlyLocalAssignments(source.body, n, FALSE, FALSE) =>
                  /\ n \notin DOMAIN symbols
                  /\ n \notin cell.reads \cup cell.writes

\* The classification of "def f(): global x; x = 1" is done: x is in writes.
GlobalThenAssignedIsWrittenWitness ==
    /\ cell.done
    /\ AssignedAfterGlobal(source, "x")
    /\ ~OnlyLocalAssignments(source.body, "x", FALSE, FALSE)
    /\ cell.writes = {"f", "x"}
    /\ cell.reads = {}

\* The transition table of a symbol state
TransitionTable ==
    [read |-> [s \in SymbolStates |->
                  CASE s = DOESNT_EXIST -> READ
                    [] s = READ -> READ
                    [] s = CREATED -> CREATED
                    [] s = READ_THEN_WRITTEN -> READ_THEN_WRITTEN],
     write |-> [s \in SymbolStates |->
                  CASE s = DOESNT_EXIST -> CREATED
                    [] s = READ -> READ_THEN_WRITTEN
                    [] s = CREATED -> CREATED
                    [] s = READ_THEN_WRITTEN -> READ_THEN_WRITTEN]]

RECURSIVE TableRun(_, _)
\* The state the table leads to from a state by a sequence of events
TableRun(state, events) ==
    IF events = <<>> THEN state
    ELSE TableRun(TransitionTable[Head(events)][state], Tail(events))

\* C9: after any sequence of read() and write() calls on a new Symbol, the
\* state is the one the transition table leads to; is_read holds if and only
\* if the first call was a read, and is_written if and only if some call was
\* a write.
SymbolFollowsTable ==
    /\ sym = TableRun(DOESNT_EXIST, trace)
    /\ is_read(sym) <=> (trace # <<>> /\ trace[1] = "read")
    /\ is_written(sym) <=> (\E i \in 1..Len(trace) : trace[i] = "write")

\* A Symbol written first and read afterwards, as e in the test: written and
\* not read.
SymbolFollowsTableWitness ==
    /\ trace = <<"write", "read">>
    /\ is_written(sym)
    /\ ~is_read(sym)

\* C10 as stated: the classification of the tree of the test gives
\* reads = {b, d, i, e} and writes = {a, c, d, e, f}.
TestCellReadsE ==
    (cell.done /\ source = TestCellSource) =>
        /\ cell.reads = {"b", "d", "i", "e"}
        /\ cell.writes = {"a", "c", "d", "e", "f"}

\* C10: the classification of the tree of the test gives reads = {b, d, i}
\* and writes = {a, c, d, e, f}; e, assigned before it is read, is in writes
\* only.
TestCellReadsAndWrites ==
    (cell.done /\ source = TestCellSource) =>
        /\ cell.reads = {"b", "d", "i"}
        /\ cell.writes = {"a", "c", "d", "e", "f"}

\* The classification of the tree of the test is done.
TestCellReadsAndWritesWitness ==
    /\ cell.done
    /\ source = TestCellSource
    /\ "e" \in cell.writes
    /\ "e" \notin cell.reads

\* C11: no position of the list is in its own set of graph(), also for a
\* cell that reads and writes the same name.
GraphHasNoSelfLoop ==
    \A i \in Positions(This) : i \notin graph(This)[i + 1]

\* A cell that reads and writes the same name stands in the list after a
\* writer of that name: it depends on that writer and not on itself.
GraphHasNoSelfLoopWitness ==
    \E i \in Positions(This) :
        /\ At(This, i).reads \cap At(This, i).writes # {}
        /\ \E k \in graph(This)[i + 1] :
             At(This, k).writes \cap At(This, i).reads \cap At(This, i).writes # {}

\* C12: dependencies and dependents called with a Cell that is not in the
\* list (deleted or replaced) end in an error, ValueError, and give no
\* result; the two methods assign to no attribute of the Flow.
UnknownCellQueriesFail ==
    \A c \in 1..Len(heap) :
        ~InList(This, c) =>
            /\ dependencies(This, c) = [exc |-> "ValueError", value |-> {}]
            /\ dependents(This, c) = [exc |-> "ValueError", value |-> {}]

\* A Cell has been deleted or replaced; the list still holds a cell that
\* writes a name it reads, and a cell that reads a name it writes.
UnknownCellQueriesFailWitness ==
    /\ last.op \in {"__delitem__", "__setitem__"}
    /\ \E c \in 1..Len(heap) :
         /\ ~InList(This, c)
         /\ \E i \in Positions(This) : At(This, i).writes \cap heap[c].reads # {}
         /\ \E i \in Positions(This) : At(This, i).reads \cap heap[c].writes # {}

\* obj.m(...), obj[k] = v or obj.a = v as a statement: the names it mutates
MutatedBy(stmt) ==
    CASE stmt.kind = "Expr" /\ stmt.value.kind = "Call"
           /\ stmt.value.func.kind = "Attribute" -> TargetNames(stmt.value.func.value)
      [] stmt.kind = "Assign" ->
            UNION {TargetNames(stmt.targets[i]) :
                     i \in {i \in 1..Len(stmt.targets) :
                              stmt.targets[i].kind \in {"Subscript", "Attribute"}}}
      [] OTHER -> {}

\* Some function or class body of the tree mutates n through a method call
\* or an item or attribute assignment, and no other statement of that body
\* binds n.
MutatedInsideUnbound(tree, n) ==
    \E body \in BodiesOf(tree) : \E q \in 1..Len(body) :
        /\ n \in MutatedBy(body[q])
        /\ \A p \in 1..Len(body) : p # q => n \notin BoundBy(body[p])

\* C13: when the classification of a tree is done, a name that a function or
\* class body mutates through a method call or an item or attribute
\* assignment, and that the body does not bind, is in reads.
MutationInsideIsRead ==
    cell.done =>
        \A n \in NamesIn(source) :
            MutatedInsideUnbound(source, n) => n \in cell.reads

\* "x op= ..." or "del x" with a plain name
UpdatesName(stmt, n) ==
    \/ stmt.kind = "AugAssign" /\ stmt.target = Name(n)
    \/ stmt.kind = "Delete" /\ \E i \in 1..Len(stmt.targets) : stmt.targets[i] = Name(n)

\* The positions of the outermost statements of a tree that update n
UpdatesOutermost(tree, n) == {p \in 1..Len(tree.body) : UpdatesName(tree.body[p], n)}

\* The statements of a tree before its first outermost update of n, as a tree
BeforeFirstUpdate(tree, n) ==
    LET first == CHOOSE p \in UpdatesOutermost(tree, n) :
                    \A q \in UpdatesOutermost(tree, n) : p <= q
    IN  Module(SubSeq(tree.body, 1, first - 1))

\* C14 as stated: when the classification of a tree is done, a name with an
\* augmented assignment or a deletion at the outermost level is in reads and
\* in writes.
UpdatedNameIsReadAndWritten ==
    cell.done =>
        \A n \in NamesIn(source) :
            UpdatesOutermost(source, n) # {} =>
                n \in cell.reads /\ n \in cell.writes

\* C14: when the classification of a tree is done, a name with an augmented
\* assignment or a deletion at the outermost level is in writes; it is in
\* reads unless the statements before the first such statement leave it
\* written and not read, and then it is in writes only.
UpdatedNameIsWritten ==
    cell.done =>
        \A n \in NamesIn(source) :
            UpdatesOutermost(source, n) # {} =>
                /\ n \in cell.writes
                /\ n \in cell.reads <=>
                      ~(/\ n \in Cell(BeforeFirstUpdate(source, n)).writes
                        /\ n \notin Cell(BeforeFirstUpdate(source, n)).reads)

\* The classification of "x += 1" after a statement that does not write x
\* first is done: x is in reads and in writes.
UpdatedNameIsWrittenWitness ==
    /\ cell.done
    /\ Len(source.body) >= 2
    /\ source.body[2] = StmtAugAssign
    /\ source.body[1] # StmtAssign
    /\ "x" \in cell.reads \cap cell.writes

\* The positions at or before i that hold, for some name read at position i,
\* the nearest cell writing that name, position i itself included
NearestWritersInclusive(self, i) ==
    {k \in 0..i :
        \E n \in At(self, i).reads :
            /\ n \in At(self, k).writes
            /\ \A j \in (k + 1)..i : n \notin At(self, j).writes}

\* C15: with each Cell at one position, dependencies(cell) returns exactly
\* the cells at the positions that hold, for a name the cell reads, the
\* nearest writer of that name at or before the cell's position; a cell that
\* reads and writes the same name is in its own result, and an earlier writer
\* of that name is not in it on account of that name.
DependenciesNearestInclusive ==
    NoDup(cells) =>
        \A i \in Positions(This) :
            /\ dependencies(This, cells[i + 1]) =
                  [exc |-> "none",
                   value |-> {cells[k + 1] : k \in NearestWritersInclusive(This, i)}]
            /\ At(This, i).reads \cap At(This, i).writes # {} =>
                  cells[i + 1] \in dependencies(This, cells[i + 1]).value

\* A cell that reads and writes y stands after another writer of y: its
\* dependencies hold the cell itself and not the earlier writer.
DependenciesNearestInclusiveWitness ==
    /\ NoDup(cells)
    /\ \E i \in Positions(This) : \E k \in 0..(i - 1) :
         /\ At(This, k).writes \cap At(This, i).reads \cap At(This, i).writes # {}
         /\ cells[i + 1] \in dependencies(This, cells[i + 1]).value
         /\ cells[k + 1] \notin dependencies(This, cells[i + 1]).value

RECURSIVE PlainTargets(_)
\* The plain names an assignment target binds: the target itself or the
\* elements of a tuple target
PlainTargets(target) ==
    CASE target.kind = "Name" -> {target.id}
      [] target.kind = "Tuple" ->
            UNION {PlainTargets(target.elts[i]) : i \in 1..Len(target.elts)}
      [] OTHER -> {}

\* C16: when the classification of a tree is done, every plain name bound by
\* an assignment statement of the outermost level, as the target or as an
\* element of a tuple target, is in writes, and every name of the right-hand
\* side has an entry in the symbol table.
OutermostAssignWritesTargets ==
    cell.done =>
        \A p \in 1..Len(source.body) :
            source.body[p].kind = "Assign" =>
                /\ \A i \in 1..Len(source.body[p].targets) :
                      PlainTargets(source.body[p].targets[i]) \subseteq cell.writes
                /\ NamesIn(source.body[p].value) \subseteq DOMAIN symbols

\* The names of a set of Cell objects, in the heap of a Flow
NamesOfCells(self, cs) ==
    UNION {self.heap[c].reads \cup self.heap[c].writes : c \in cs \cap (1..Len(self.heap))}

\* From self to after, the sets of read_by and written_by change only under
\* the names of the Cell objects of "affected", and only in the membership
\* of those objects.
OnlyAffectedChange(self, after, affected) ==
    /\ \A n \in FlowNames \ NamesOfCells(after, affected) :
         /\ (n \in DOMAIN after.read_by) = (n \in DOMAIN self.read_by)
         /\ (n \in DOMAIN after.written_by) = (n \in DOMAIN self.written_by)
         /\ Members(after.read_by, n) = Members(self.read_by, n)
         /\ Members(after.written_by, n) = Members(self.written_by, n)
    /\ \A n \in FlowNames : \A c \in (1..Len(after.heap)) \ affected :
         /\ (c \in Members(after.read_by, n)) = (c \in Members(self.read_by, n))
         /\ (c \in Members(after.written_by, n)) = (c \in Members(self.written_by, n))

\* The Cell object a value stands for once passed to _add
CellOfValue(self, value) ==
    IF value.type = "Cell" THEN {value.id}
    ELSE IF ast_parse_raises(value.text) THEN {}
    ELSE {Len(self.heap) + 1}

\* C17: in every state, whatever the call and however it ends, append
\* changes read_by and written_by only under the names of the appended cell
\* and only in that cell's membership, and leaves the cells of the list in
\* place; __setitem__ does so for the replaced and the new cell, leaving the
\* other positions as they were; __delitem__ does so for the deleted cell,
\* leaving the other cells in their order.
MutationsTouchOnlyAffected ==
    /\ \A value \in Values : \A out \in append(This, value) :
         /\ OnlyAffectedChange(This, out.self, CellOfValue(This, value))
         /\ SubSeq(out.self.cells, 1, Len(cells)) = cells
    /\ \A key \in Positions(This) : \A value \in Values :
         \A out \in __setitem__(This, key, value) :
            /\ OnlyAffectedChange(This, out.self,
                                  {cells[key + 1]} \cup CellOfValue(This, value))
            /\ \A p \in 1..Len(cells) : p # key + 1 => out.self.cells[p] = cells[p]
    /\ \A key \in Positions(This) : \A out \in __delitem__(This, key) :
         /\ OnlyAffectedChange(This, out.self, {cells[key + 1]})
         /\ out.self.cells = ListWithout(cells, key)

\* A replace has returned in a list of three cells, where another cell of
\* the list shares a set of read_by or written_by with the new cell.
MutationsTouchOnlyAffectedWitness ==
    /\ last = [op |-> "__setitem__", exc |-> "none"]
    /\ Len(cells) = 3
    /\ NoDup(cells)
    /\ \E n \in FlowNames :
         Cardinality(Members(read_by, n)) + Cardinality(Members(written_by, n)) >= 2
    /\ \E n \in FlowNames : \E i \in Positions(This) :
         n \notin At(This, i).reads \cup At(This, i).writes

\* The Cell object c is in the list of self and in the set of every name it
\* reads or writes.
CellIndexed(self, c) ==
    /\ InList(self, c)
    /\ \A n \in self.heap[c].reads : c \in Members(self.read_by, n)
    /\ \A n \in self.heap[c].writes : c \in Members(self.written_by, n)

\* c is in the list after the call, indexed, and deleting it returns.
RemainsRemovable(out, c) ==
    /\ out.exc = "none"
    /\ CellIndexed(out.self, c)
    /\ \A again \in __delitem__(out.self, list_index(out.self.cells, c)) :
         again.exc = "none"

\* C18: when a Cell object stands at two positions of a list whose cells are
\* all indexed, deleting one of the two positions, or replacing it by
\* another cell, leaves the object in the list and in the sets of the names
\* it reads and writes, and a delete of the remaining position returns.
SharedCellSurvivesRemoval ==
    ReverseMapsConsistent =>
        \A key \in Positions(This) :
            (\E p \in Positions(This) : p # key /\ cells[p + 1] = cells[key + 1]) =>
                /\ \A out \in __delitem__(This, key) :
                      RemainsRemovable(out, cells[key + 1])
                /\ \A value \in Values :
                      (value.type = "str" /\ ~ast_parse_raises(value.text)) =>
                          \A out \in __setitem__(This, key, value) :
                              RemainsRemovable(out, cells[key + 1])

\* The local_scope_visit calls whose finally clause is still to run
PopsPending(a) == Cardinality({i \in 1..Len(a) : a[i].op = "pop"})

\* The statements that follow a def or class at the outermost level are
\* classified as outermost statements: a name read there has an entry in the
\* symbol table and a name assigned there is in writes.
FollowingStatementsOutermost ==
    cell.done =>
        \A p \in 2..Len(source.body) :
            IsDef(source.body[p - 1]) =>
                LET stmt == source.body[p]
                IN  /\ (stmt.kind = "Expr" /\ stmt.value.kind = "Name") =>
                          stmt.value.id \in DOMAIN symbols
                    /\ \A n \in NamesIn(stmt) : AssignsName(stmt, n) => n \in cell.writes

\* One call of the traversal changes the stack of scopes by a push of one
\* fresh scope, by a pop of the innermost scope (of every scope when an
\* exception propagates), or in the innermost scope only.
ScopeStep ==
    /\ Len(scopes') > Len(scopes) => scopes' = Append(scopes, Scope)
    /\ Len(scopes') < Len(scopes) =>
          /\ scopes' = SubSeq(scopes, 1, Len(scopes'))
          /\ Len(scopes') = Len(scopes) - 1 \/ last'.exc # "none"
    /\ Len(scopes') = Len(scopes) =>
          \A i \in 1..(Len(scopes) - 1) : scopes'[i] = scopes[i]

\* C19: throughout the traversal the depth of the stack of scopes is the
\* number of local_scope_visit calls in progress, so the depth after a def
\* or class is the depth before it; the stack is empty when the traversal
\* ends, by return or by an exception; each push is of one fresh scope and
\* each pop removes the innermost scope; and the statements that follow a def
\* or class are classified without regard to the bindings and declarations
\* of its body.
ScopesBalanced ==
    /\ [](/\ PopsPending(agenda) = Len(scopes)
          /\ agenda = <<>> => scopes = <<>>
          /\ FollowingStatementsOutermost)
    /\ [][ScopeStep]_vars

\* An exception has left the traversal of "def f(): x; x = 1" from inside
\* the body, after the read of x: the stack of scopes is empty.
ScopesBalancedWitness ==
    /\ last.exc = "RuntimeError"
    /\ source = Module(<<FunctionDef("f", <<>>, <<StmtRead, StmtAssign>>)>>)
    /\ "x" \in DOMAIN symbols
    /\ agenda = <<>>
    /\ scopes = <<>>

====
